---- MODULE Spec2Model ----
(***************************************************************************)
(* A model of the Monkey parser of src/src/parser/mod.rs: the token cursor *)
(* (cur_token, peek_token over a Lexer) and the recursive-descent / Pratt  *)
(* engine built on it.  Every parsing routine is an operator over the      *)
(* parser record, computed as the code computes it; a routine's result is  *)
(* a record [p, ok, v, err]: the parser after the call, Ok/Err, the value  *)
(* and the error.                                                          *)
(***************************************************************************)
EXTENDS Naturals, Sequences, FiniteSets

VARIABLES input, shape, parser, pc, last, result

vars == <<input, shape, parser, pc, last, result>>

(***************************************************************************)
(* Tokens (crate::lexer::token::Token): a kind and a payload.              *)
(***************************************************************************)
Tok(k) == [k |-> k, v |-> ""]

TIdent(n) == [k |-> "Ident", v |-> n]

TInt(n) == [k |-> "Int", v |-> n]

TBool(b) == [k |-> "Bool", v |-> b]

TString(s) == [k |-> "String", v |-> s]

EOF_TOKEN == Tok("Eof")

is_eof(t) == t = EOF_TOKEN

(***************************************************************************)
(* Precedence (crate::parser::program::Precedence), lowest to highest.     *)
(***************************************************************************)
Lowest == 0

Equality == 1

Relational == 2

Additive == 3

Multiplicative == 4

Prefix == 5

Call == 6

from_token(t) ==
    CASE t.k \in {"Eq", "NotEq"} -> Equality
      [] t.k \in {"LT", "GT"} -> Relational
      [] t.k \in {"Plus", "Minus"} -> Additive
      [] t.k \in {"Slash", "Asterisk"} -> Multiplicative
      [] t.k \in {"LParen", "LBracket"} -> Call
      [] OTHER -> Lowest

add(precedence, n) == precedence + n

(***************************************************************************)
(* The Lexer: the token stream and the index of the next token to hand     *)
(* out; past the end it hands out the end-of-input token again and again.  *)
(***************************************************************************)
TokAt(toks, i) == IF i >= 1 /\ i <= Len(toks) THEN toks[i] ELSE EOF_TOKEN

Lexer(toks) == [toks |-> toks, pos |-> 1]

l_next_token(l) == [tok |-> TokAt(l.toks, l.pos), l |-> [l EXCEPT !.pos = @ + 1]]

(***************************************************************************)
(* Bounds of the step budget given to one parse: FuelFactor steps per      *)
(* token.  A parse that uses it up is reported as diverged.                *)
(***************************************************************************)
FuelFactor == 2

Fuel(toks) == FuelFactor * (Len(toks) + 2)

(***************************************************************************)
(* Results of the parsing routines (Result<T>).                            *)
(***************************************************************************)
Ok(p, v) == [p |-> p, ok |-> TRUE, v |-> v, err |-> <<>>]

Err(p, info) == [p |-> p, ok |-> FALSE, v |-> <<>>, err |-> info]

Tick(p) == [p EXCEPT !.fuel = @ - 1]

Diverged(p) == Err([p EXCEPT !.diverged = TRUE], <<"diverged">>)

(***************************************************************************)
(* The token cursor.  eofAdv records that next_token was invoked while     *)
(* the current token was the end-of-input token; adjacent records that     *)
(* after every advance so far cur_token and peek_token were the tokens at  *)
(* two consecutive positions of the stream.                                *)
(***************************************************************************)
Consecutive(p) ==
    /\ p.l.pos >= 3
    /\ p.cur_token = TokAt(p.l.toks, p.l.pos - 2)
    /\ p.peek_token = TokAt(p.l.toks, p.l.pos - 1)

\* next_token without the swap: the old current token is kept.
next_token_no_swap(p) ==
    LET t == l_next_token(p.l)
        q == [p EXCEPT !.peek_token = t.tok,
                       !.l = t.l,
                       !.eofAdv = @ \/ is_eof(p.cur_token)]
    IN  [q EXCEPT !.adjacent = @ /\ (q.l.pos >= 3 => Consecutive(q))]

next_token(p) ==
    LET t == l_next_token(p.l)
        q == [p EXCEPT !.cur_token = p.peek_token,
                       !.peek_token = t.tok,
                       !.l = t.l,
                       !.eofAdv = @ \/ is_eof(p.cur_token)]
    IN  [q EXCEPT !.adjacent = @ /\ (q.l.pos >= 3 => Consecutive(q))]

new(l) ==
    LET ret == [l |-> l, cur_token |-> EOF_TOKEN, peek_token |-> EOF_TOKEN,
                fuel |-> Fuel(l.toks), diverged |-> FALSE,
                eofAdv |-> FALSE, adjacent |-> TRUE]
    IN  [next_token(next_token(ret)) EXCEPT !.eofAdv = FALSE]

\* expect_peek that advances whether or not peek is the expected token.
expect_peek_consuming(p, token) ==
    [p |-> next_token(p), ret |-> p.peek_token = token]

expect_peek(p, token) ==
    IF p.peek_token = token
    THEN [p |-> next_token(p), ret |-> TRUE]
    ELSE [p |-> p, ret |-> FALSE]

(***************************************************************************)
(* The parsing routines.  p is the parser on entry.                        *)
(***************************************************************************)
\* The `?` operator: an Err is returned at once, an Ok value is passed on.
Try(r, F(_)) == IF ~r.ok THEN r ELSE F(r)

\* if !self.expect_peek(..) { return Err(info) }, then on with the parser.
Require(e, info, F(_)) == IF ~e.ret THEN Err(e.p, info) ELSE F(e.p)

RECURSIVE parse_statement(_)
RECURSIVE parse_expression(_, _)
RECURSIVE parse_expression_infix(_, _, _)
RECURSIVE parse_block_statement_loop(_, _)
RECURSIVE parse_hash_literal_loop(_, _)
RECURSIVE parse_expression_list_loop(_, _)
RECURSIVE parse_function_parameters_loop(_, _)
RECURSIVE parse_program_loop(_, _)

parse_identifier(p) ==
    IF p.cur_token.k = "Ident"
    THEN Ok(p, <<"Ident", p.cur_token.v>>)
    ELSE Err(p, <<"not a ident token">>)

parse_int_literal(p) ==
    IF p.cur_token.k = "Int"
    THEN Ok(p, <<"IntLiteral", p.cur_token.v>>)
    ELSE Err(p, <<"Token::Int not found">>)

parse_bool_literal(p) ==
    IF p.cur_token.k = "Bool"
    THEN Ok(p, <<"BoolLiteral", p.cur_token.v>>)
    ELSE Err(p, <<"Token::Bool not found">>)

parse_string_literal(p) ==
    IF p.cur_token.k = "String"
    THEN Ok(p, <<"StringLiteral", p.cur_token.v>>)
    ELSE Err(p, <<"Token::String not found">>)

\* parse_prefix_expression whose operand is parsed at Lowest.
parse_prefix_expression_lowest(p) ==
    Try(parse_expression(next_token(p), Lowest),
        LAMBDA right : Ok(right.p, <<"PrefixExpression", p.cur_token, right.v>>))

parse_prefix_expression(p) ==
    Try(parse_expression(next_token(p),
                         IF p.cur_token.k = "Minus" THEN add(Prefix, 1) ELSE Prefix),
        LAMBDA right : Ok(right.p, <<"PrefixExpression", p.cur_token, right.v>>))

\* parse_infix_expression whose right operand is parsed one level lower
\* (precedence.sub(1)), which makes every operator right-associative.
parse_infix_expression_sub(p, left) ==
    Try(parse_expression(next_token(p), from_token(p.cur_token) - 1),
        LAMBDA right :
            Ok(right.p, <<"InfixExpression", left, p.cur_token, right.v>>))

parse_infix_expression(p, left) ==
    Try(parse_expression(next_token(p), from_token(p.cur_token)),
        LAMBDA right :
            Ok(right.p, <<"InfixExpression", left, p.cur_token, right.v>>))

parse_grouped_expression(p) ==
    Try(parse_expression(next_token(p), Lowest), LAMBDA exp :
    Require(expect_peek(exp.p, Tok("RParen")), <<"Right parentheses expected">>,
            LAMBDA p1 : Ok(p1, exp.v)))

\* parse_block_statement whose loop also stops, with the statements read so
\* far, at the end of input.
parse_block_statement_loop_eof(p, ret) ==
    IF p.fuel = 0 THEN Diverged(p)
    ELSE IF p.cur_token = Tok("RBrace") \/ is_eof(p.cur_token) THEN Ok(p, ret)
    ELSE Try(parse_statement(Tick(p)), LAMBDA statement :
             parse_block_statement_loop(next_token(statement.p),
                                        Append(ret, statement.v)))

parse_block_statement_loop(p, ret) ==
    IF p.fuel = 0 THEN Diverged(p)
    ELSE IF p.cur_token = Tok("RBrace") THEN Ok(p, ret)
    ELSE Try(parse_statement(Tick(p)), LAMBDA statement :
             parse_block_statement_loop(next_token(statement.p),
                                        Append(ret, statement.v)))

parse_block_statement(p) == parse_block_statement_loop(next_token(p), <<>>)

\* parse_if_expression that reads an `else` block into the alternative.
parse_if_expression_else(p) ==
    Require(expect_peek(p, Tok("LParen")), <<"'(' expected after 'if'.">>,
            LAMBDA p1 :
    Try(parse_expression(next_token(p1), Lowest), LAMBDA condition :
    Require(expect_peek(condition.p, Tok("RParen")),
            <<"')' expected after if condition expression">>, LAMBDA p2 :
    Require(expect_peek(p2, Tok("LBrace")), <<"'{' expected for block.">>,
            LAMBDA p3 :
    Try(parse_block_statement(p3), LAMBDA consequence :
        IF consequence.p.peek_token # Tok("Else")
        THEN Ok(consequence.p,
                <<"IfExpression", condition.v, consequence.v, <<>>>>)
        ELSE
        Require(expect_peek(next_token(consequence.p), Tok("LBrace")),
                <<"'{' expected for block.">>, LAMBDA p4 :
        Try(parse_block_statement(p4), LAMBDA alternative :
            Ok(alternative.p,
               <<"IfExpression", condition.v, consequence.v, alternative.v>>))))))))

parse_if_expression(p) ==
    Require(expect_peek(p, Tok("LParen")), <<"'(' expected after 'if'.">>,
            LAMBDA p1 :
    Try(parse_expression(next_token(p1), Lowest), LAMBDA condition :
    Require(expect_peek(condition.p, Tok("RParen")),
            <<"')' expected after if condition expression">>, LAMBDA p2 :
    Require(expect_peek(p2, Tok("LBrace")), <<"'{' expected for block.">>,
            LAMBDA p3 :
    Try(parse_block_statement(p3), LAMBDA consequence :
        Ok(consequence.p,
           <<"IfExpression", condition.v, consequence.v, <<>>>>))))))

parse_function_parameters_push(p, ret) ==
    IF p.cur_token.k = "Ident" THEN Append(ret, <<"Ident", p.cur_token.v>>) ELSE ret

parse_function_parameters_loop(p, ret) ==
    IF p.fuel = 0 THEN Diverged(p)
    ELSE IF p.peek_token # Tok("Comma")
    THEN Require(expect_peek(p, Tok("RParen")),
                 <<"')' expected for function parameters expression.">>,
                 LAMBDA p1 : Ok(p1, parse_function_parameters_push(p, ret)))
    ELSE parse_function_parameters_loop(next_token(next_token(Tick(p))),
                                        parse_function_parameters_push(p, ret))

parse_function_parameters(p) ==
    IF next_token(p).cur_token = Tok("RParen") THEN Ok(next_token(p), <<>>)
    ELSE parse_function_parameters_loop(next_token(p), <<>>)

parse_function_literal(p) ==
    Require(expect_peek(p, Tok("LParen")),
            <<"'(' expected for function expression">>, LAMBDA p1 :
    Try(parse_function_parameters(p1), LAMBDA params :
    Require(expect_peek(params.p, Tok("LBrace")),
            <<"'{' expected for function body.">>, LAMBDA p2 :
    Try(parse_block_statement(p2), LAMBDA sts :
        Ok(sts.p, <<"FunctionExpression", params.v, sts.v>>)))))

\* parse_expression_list whose loop puts each further element first.
parse_expression_list_loop_front(p, ret) ==
    IF p.fuel = 0 THEN Diverged(p)
    ELSE IF p.peek_token # Tok("Comma") THEN Ok(p, ret)
    ELSE Try(parse_expression(next_token(next_token(Tick(p))), Lowest),
             LAMBDA e : parse_expression_list_loop(e.p, <<e.v>> \o ret))

parse_expression_list_loop(p, ret) ==
    IF p.fuel = 0 THEN Diverged(p)
    ELSE IF p.peek_token # Tok("Comma") THEN Ok(p, ret)
    ELSE Try(parse_expression(next_token(next_token(Tick(p))), Lowest),
             LAMBDA e : parse_expression_list_loop(e.p, Append(ret, e.v)))

parse_expression_list(p, end) ==
    IF p.peek_token = end THEN Ok(next_token(p), <<>>)
    ELSE Try(parse_expression(next_token(p), Lowest),
             LAMBDA first : parse_expression_list_loop(first.p, <<first.v>>))

parse_array_literal(p) ==
    Try(parse_expression_list(p, Tok("RBracket")), LAMBDA elements :
    Require(expect_peek(elements.p, Tok("RBracket")),
            <<"']' expected for array definition.">>,
            LAMBDA p1 : Ok(p1, <<"ArrayLiteral", elements.v>>)))

parse_hash_literal_loop(p, ret) ==
    IF p.fuel = 0 THEN Diverged(p)
    ELSE IF p.peek_token = Tok("RBrace")
    THEN Require(expect_peek(p, Tok("RBrace")), <<"'}' expected for Hash end.">>,
                 LAMBDA p1 : Ok(p1, <<"HashLiteral", ret>>))
    ELSE
    Try(parse_expression(next_token(Tick(p)), Lowest), LAMBDA key :
    Require(expect_peek(key.p, Tok("Colon")), <<"':' expected in Hash element.">>,
            LAMBDA p1 :
    Try(parse_expression(next_token(p1), Lowest), LAMBDA value :
        IF /\ value.p.peek_token # Tok("RBrace")
           /\ value.p.peek_token # Tok("Comma")
        THEN Err(value.p, <<"'}' or ',' expected in Hash element.">>)
        ELSE parse_hash_literal_loop(value.p, Append(ret, <<key.v, value.v>>)))))

parse_hash_literal(p) == parse_hash_literal_loop(p, <<>>)

parse_call_arguments(p) ==
    Try(parse_expression_list(p, Tok("RParen")), LAMBDA ret :
    Require(expect_peek(ret.p, Tok("RParen")), <<"')' expected for function call.">>,
            LAMBDA p1 : Ok(p1, ret.v)))

parse_call_expression(p, function) ==
    Try(parse_call_arguments(p),
        LAMBDA args : Ok(args.p, <<"CallExpression", function, args.v>>))

parse_index_expression(p, left) ==
    Try(parse_expression(next_token(p), Lowest), LAMBDA index :
    Require(expect_peek(index.p, Tok("RBracket")), <<"']' expected for index end.">>,
            LAMBDA p1 : Ok(p1, <<"IndexExpression", left, index.v>>)))

InfixKinds == {"Eq", "NotEq", "LT", "GT", "Plus", "Minus", "Slash", "Asterisk"}

parse_expression_infix_arm(p, precedence, left) ==
    CASE p.cur_token.k \in InfixKinds ->
           Try(parse_infix_expression(p, left),
               LAMBDA r : parse_expression_infix(r.p, precedence, r.v))
      [] p.cur_token.k = "LParen" ->
           Try(parse_call_expression(p, left),
               LAMBDA r : parse_expression_infix(r.p, precedence, r.v))
      [] p.cur_token.k = "LBracket" ->
           Try(parse_index_expression(p, left),
               LAMBDA r : parse_expression_infix(r.p, precedence, r.v))
      [] OTHER -> Ok(p, left)

parse_expression_infix(p, precedence, left) ==
    IF p.fuel = 0 THEN Diverged(p)
    ELSE IF \/ p.peek_token = Tok("Semicolon")
            \/ precedence >= from_token(p.peek_token)
    THEN Ok(p, left)
    ELSE parse_expression_infix_arm(next_token(Tick(p)), precedence, left)

parse_expression_prefix(p, precedence) ==
    CASE p.cur_token.k = "Ident" ->
           Try(parse_identifier(p),
               LAMBDA ident : Ok(ident.p, <<"Identifier", ident.v>>))
      [] p.cur_token.k = "Int" -> parse_int_literal(p)
      [] p.cur_token.k = "Bool" -> parse_bool_literal(p)
      [] p.cur_token.k = "String" -> parse_string_literal(p)
      [] p.cur_token.k \in {"Bang", "Minus"} ->
           IF precedence > Prefix
           THEN Err(p, <<"'(' expected after prefix", p.cur_token>>)
           ELSE parse_prefix_expression(p)
      [] p.cur_token.k = "LParen" -> parse_grouped_expression(p)
      [] p.cur_token.k = "If" -> parse_if_expression(p)
      [] p.cur_token.k = "Function" -> parse_function_literal(p)
      [] p.cur_token.k = "LBracket" -> parse_array_literal(p)
      [] p.cur_token.k = "LBrace" -> parse_hash_literal(p)
      [] OTHER -> Err(p, <<"no prefix parse function for", p.cur_token>>)

parse_expression(p, precedence) ==
    IF p.fuel = 0 THEN Diverged(p)
    ELSE Try(parse_expression_prefix(Tick(p), precedence),
             LAMBDA left : parse_expression_infix(left.p, precedence, left.v))

ConsumeSemicolon(p) ==
    IF p.peek_token = Tok("Semicolon") THEN next_token(p) ELSE p

parse_let_statement(p) ==
    Try(parse_identifier(IF p.peek_token.k = "Ident" THEN next_token(p) ELSE p),
        LAMBDA identifier :
    Require(expect_peek(identifier.p, Tok("Assign")), <<"no equal sign!">>,
            LAMBDA p1 :
    Try(parse_expression(next_token(p1), Lowest), LAMBDA value :
        Ok(ConsumeSemicolon(value.p),
           <<"LetStatement", identifier.v, value.v>>))))

parse_return_statement(p) ==
    Try(parse_expression(next_token(p), Lowest),
        LAMBDA ret : Ok(ConsumeSemicolon(ret.p), <<"ReturnStatement", ret.v>>))

parse_expression_statement(p) ==
    Try(parse_expression(p, Lowest),
        LAMBDA ret : Ok(ConsumeSemicolon(ret.p), <<"ExpressionStatement", ret.v>>))

parse_statement(p) ==
    CASE p.cur_token.k = "Let" -> parse_let_statement(p)
      [] p.cur_token.k = "Return" -> parse_return_statement(p)
      [] OTHER -> parse_expression_statement(p)

parse_program_loop(p, ret) ==
    IF p.fuel = 0 THEN Diverged(p)
    ELSE IF is_eof(p.cur_token) THEN Ok(p, <<"Program", ret>>)
    ELSE Try(parse_statement(Tick(p)), LAMBDA statement :
             parse_program_loop(next_token(statement.p), Append(ret, statement.v)))

parse_program(p) == parse_program_loop(p, <<>>)

(***************************************************************************)
(* Token streams given to the parser.                                      *)
(***************************************************************************)
MaxLen == 3

SeqsUpTo(S, n) == UNION {[1..k -> S] : k \in 0..n}

RECURSIVE Join(_, _)
Join(seqs, sep) ==
    IF seqs = <<>> THEN <<>>
    ELSE IF Len(seqs) = 1 THEN seqs[1]
    ELSE seqs[1] \o sep \o Join(Tail(seqs), sep)

StreamAlphabet ==
    {TIdent("a"), Tok("Plus"), Tok("Minus"), Tok("Comma"), Tok("Colon"),
     Tok("Semicolon"), Tok("LParen"), Tok("RParen"), Tok("LBracket"),
     Tok("RBracket"), Tok("LBrace"), Tok("RBrace"), Tok("Function"), Tok("If")}

Streams == SeqsUpTo(StreamAlphabet, MaxLen)

\* function (a, b) { return a + b; }
SampleFunction ==
    <<Tok("Function"), Tok("LParen"), TIdent("a"), Tok("Comma"), TIdent("b"),
      Tok("RParen"), Tok("LBrace"), Tok("Return"), TIdent("a"), Tok("Plus"),
      TIdent("b"), Tok("Semicolon"), Tok("RBrace")>>

\* let x = if (a < 1) { [a, 1] };
SampleLetIf ==
    <<Tok("Let"), TIdent("x"), Tok("Assign"), Tok("If"), Tok("LParen"),
      TIdent("a"), Tok("LT"), TInt("1"), Tok("RParen"), Tok("LBrace"),
      Tok("LBracket"), TIdent("a"), Tok("Comma"), TInt("1"), Tok("RBracket"),
      Tok("RBrace"), Tok("Semicolon")>>

\* {"s": f(a, -1)[0]}
SampleHash ==
    <<Tok("LBrace"), TString("s"), Tok("Colon"), TIdent("f"), Tok("LParen"),
      TIdent("a"), Tok("Comma"), Tok("Minus"), TInt("1"), Tok("RParen"),
      Tok("LBracket"), TInt("0"), Tok("RBracket"), Tok("RBrace")>>

\* function () { if (!true) { (a + b) * 2 } }
SampleNested ==
    <<Tok("Function"), Tok("LParen"), Tok("RParen"), Tok("LBrace"), Tok("If"),
      Tok("LParen"), Tok("Bang"), TBool("true"), Tok("RParen"), Tok("LBrace"),
      Tok("LParen"), TIdent("a"), Tok("Plus"), TIdent("b"), Tok("RParen"),
      Tok("Asterisk"), TInt("2"), Tok("RBrace"), Tok("RBrace")>>

\* let y = f(a, g(1))[0];
SampleCall ==
    <<Tok("Let"), TIdent("y"), Tok("Assign"), TIdent("f"), Tok("LParen"),
      TIdent("a"), Tok("Comma"), TIdent("g"), Tok("LParen"), TInt("1"),
      Tok("RParen"), Tok("RParen"), Tok("LBracket"), TInt("0"), Tok("RBracket"),
      Tok("Semicolon")>>

\* [a, [1, 2], "s"]
SampleArray ==
    <<Tok("LBracket"), TIdent("a"), Tok("Comma"), Tok("LBracket"), TInt("1"),
      Tok("Comma"), TInt("2"), Tok("RBracket"), Tok("Comma"), TString("s"),
      Tok("RBracket")>>

Samples ==
    {SampleFunction, SampleLetIf, SampleHash, SampleNested, SampleCall, SampleArray}

Prefixes == UNION {{SubSeq(s, 1, n) : n \in 0..Len(s)} : s \in Samples}

Deletions ==
    UNION {{SubSeq(s, 1, n - 1) \o SubSeq(s, n + 1, Len(s)) : n \in 1..Len(s)} :
              s \in Samples}

Openers == {"LParen", "LBracket", "LBrace"}

Closers == {"RParen", "RBracket", "RBrace"}

RECURSIVE Depth(_)
Depth(toks) ==
    IF toks = <<>> THEN 0
    ELSE LET d == Depth(SubSeq(toks, 1, Len(toks) - 1))
             k == toks[Len(toks)].k
         IN  IF k \in Openers THEN d + 1
             ELSE IF k \in Closers /\ d > 0 THEN d - 1
             ELSE d

(***************************************************************************)
(* Source forms: token streams built from parts, kept in shape.parts so    *)
(* that the expected tree can be stated from the parts.                    *)
(***************************************************************************)
MaxOps == 3

MaxArgs == 2

MaxPairs == 2

MaxParams == 2

BinOps == {Tok(k) : k \in InfixKinds}

ChainAtoms ==
    <<TIdent("a"), TInt("1"), TBool("true"), TString("s"), TIdent("b"), TInt("2")>>

AtomFor(i) == ChainAtoms[((i - 1) % Len(ChainAtoms)) + 1]

\* a0 op1 a1 ... opn an
ChainToks(ops) ==
    [i \in 1..(2 * Len(ops) + 1) |->
        IF i % 2 = 1 THEN AtomFor((i + 1) \div 2) ELSE ops[i \div 2]]

Case(fam, toks, parts) == [toks |-> toks, fam |-> fam, parts |-> parts]

ChainCases ==
    {Case("chain", ChainToks(ops), <<ChainToks(ops)>>) :
        ops \in SeqsUpTo(BinOps, MaxOps)}

\* -a op b, !a op b, !-a, ...
UnaryOps == {Tok("Minus"), Tok("Bang")}

UnaryAtoms == {<<TIdent("a")>>, <<TInt("1")>>}

UnaryCases ==
    {Case("unary", pre \o a \o op \o b, <<pre, a, op, b>>) :
        pre \in {<<u>> : u \in UnaryOps}, a \in UnaryAtoms,
        op \in {<<o>> : o \in BinOps}, b \in {<<TIdent("b")>>, <<TInt("2")>>}}
    \union
    {Case("unary", pre \o a, <<pre, a, <<>>, <<>>>>) :
        pre \in [1..2 -> UnaryOps], a \in UnaryAtoms}

\* callee ( a1 , ... , ak ) [ i ]
Callees ==
    {<<TIdent("f")>>,
     <<Tok("LParen"), TIdent("a"), Tok("Plus"), TIdent("b"), Tok("RParen")>>,
     <<TIdent("f"), Tok("LParen"), TIdent("a"), Tok("RParen")>>,
     <<Tok("Function"), Tok("LParen"), TIdent("x"), Tok("RParen"), Tok("LBrace"),
       TIdent("x"), Tok("RBrace")>>,
     <<TIdent("a"), Tok("LBracket"), TInt("1"), Tok("RBracket")>>}

ArgExprs ==
    {<<TIdent("a")>>, <<TInt("1"), Tok("Plus"), TInt("2")>>,
     <<Tok("Minus"), TIdent("b")>>,
     <<TIdent("g"), Tok("LParen"), TBool("true"), Tok("RParen")>>}

IdxExprs == {<<TInt("0")>>, <<TIdent("a"), Tok("Asterisk"), TInt("2")>>}

CallToks(callee, args, idx) ==
    callee \o <<Tok("LParen")>> \o Join(args, <<Tok("Comma")>>)
           \o <<Tok("RParen"), Tok("LBracket")>> \o idx \o <<Tok("RBracket")>>

CallCases ==
    {Case("call", CallToks(callee, args, idx) \o tail, <<callee, idx>> \o args) :
        callee \in Callees, idx \in IdxExprs,
        args \in SeqsUpTo(ArgExprs, MaxArgs) \ {<<>>},
        tail \in {<<>>, <<Tok("Semicolon")>>}}

\* { k1 : v1 , ... , kn : vn }
HashKeys == {<<TString("s")>>, <<TIdent("a")>>}

HashValues == {<<TInt("1")>>, <<TIdent("a"), Tok("Plus"), TIdent("b")>>}

HashPairs == {<<k, v>> : k \in HashKeys, v \in HashValues}

HashToks(pairs) ==
    <<Tok("LBrace")>>
    \o Join([i \in 1..Len(pairs) |-> pairs[i][1] \o <<Tok("Colon")>> \o pairs[i][2]],
            <<Tok("Comma")>>)
    \o <<Tok("RBrace")>>

HashCases ==
    {Case("hash", HashToks(pairs), pairs) : pairs \in SeqsUpTo(HashPairs, MaxPairs)}

\* [ ] and f ( ), and what follows them
EmptyHeads ==
    {<<Tok("LBracket"), Tok("RBracket")>>,
     <<TIdent("f"), Tok("LParen"), Tok("RParen")>>}

Followers ==
    {<<>>, <<Tok("Semicolon")>>, <<Tok("RParen")>>, <<Tok("RBracket")>>,
     <<Tok("RBrace")>>, <<Tok("Comma")>>, <<Tok("Colon")>>}

EmptyListCases ==
    {Case("emptylist", head \o tail, <<head, tail>>) :
        head \in EmptyHeads, tail \in Followers}

\* function ( P1 , ... , Pk ) { body }
ParamToks == {TIdent("a"), TIdent("b"), TInt("1"), TBool("true"), Tok("LParen")}

FnBodies == {<<>>, <<TIdent("a")>>}

FnToks(params, body) ==
    <<Tok("Function"), Tok("LParen")>>
    \o Join([i \in 1..Len(params) |-> <<params[i]>>], <<Tok("Comma")>>)
    \o <<Tok("RParen"), Tok("LBrace")>> \o body \o <<Tok("RBrace")>>

FnCases ==
    {Case("fnparams", FnToks(params, body), <<params, body>>) :
        params \in SeqsUpTo(ParamToks, MaxParams), body \in FnBodies}

\* if ( c ) { a } tail
IfConds == {<<TIdent("c")>>, <<TIdent("a"), Tok("LT"), TInt("1")>>, <<TBool("true")>>}

IfBodies == {<<TIdent("a")>>, <<TInt("1"), Tok("Plus"), TInt("2")>>}

ElseBranch == <<Tok("Else"), Tok("LBrace"), TIdent("b"), Tok("RBrace")>>

IfTails == {<<>>, <<Tok("Semicolon")>>, ElseBranch, ElseBranch \o <<Tok("Semicolon")>>}

IfToks(c, a) ==
    <<Tok("If"), Tok("LParen")>> \o c \o <<Tok("RParen"), Tok("LBrace")>> \o a
    \o <<Tok("RBrace")>>

IfCases ==
    {Case("ifelse", IfToks(c, a) \o tail, <<c, a, tail>>) :
        c \in IfConds, a \in IfBodies, tail \in IfTails}

(***************************************************************************)
(* The state machine: a parser constructed over the input, the cursor      *)
(* operations and the parsing routines applied to it.                      *)
(***************************************************************************)
NoToken == Tok("")

ExpectArgs ==
    {Tok("Assign"), Tok("LParen"), Tok("RParen"), Tok("LBrace"), Tok("RBrace"),
     Tok("RBracket"), Tok("Colon"), TIdent("a")}

Start(toks, sh) ==
    /\ input = toks
    /\ shape = sh
    /\ parser = new(Lexer(toks))
    /\ pc = "primed"
    /\ last = [op |-> "new", arg |-> NoToken, ret |-> TRUE, from |-> 3]
    /\ result = Ok(parser, <<>>)

Init ==
    \/ \E toks \in Streams : Start(toks, [fam |-> "stream", parts |-> <<>>])
    \/ \E toks \in Prefixes : Start(toks, [fam |-> "prefix", parts |-> <<>>])
    \/ \E toks \in Deletions : Start(toks, [fam |-> "deletion", parts |-> <<>>])

\* The cursor is stepped to any position of the stream, up to its end.
NextToken ==
    /\ pc = "primed"
    /\ ~is_eof(parser.cur_token)
    /\ parser' = next_token(parser)
    /\ last' = [op |-> "next_token", arg |-> NoToken, ret |-> TRUE,
                from |-> parser.l.pos]
    /\ UNCHANGED <<input, shape, pc, result>>

ExpectPeek ==
    /\ pc = "primed"
    /\ \E token \in ExpectArgs :
         LET e == expect_peek(parser, token)
         IN  /\ parser' = e.p
             /\ last' = [op |-> "expect_peek", arg |-> token, ret |-> e.ret,
                         from |-> parser.l.pos]
    /\ pc' = "done"
    /\ UNCHANGED <<input, shape, result>>

ParseProgram ==
    /\ pc = "primed"
    /\ result' = parse_program(parser)
    /\ parser' = result'.p
    /\ last' = [op |-> "parse_program", arg |-> NoToken, ret |-> result'.ok,
                from |-> parser.l.pos]
    /\ pc' = "done"
    /\ UNCHANGED <<input, shape>>

ParseExpression ==
    /\ pc = "primed"
    /\ result' = parse_expression(parser, Lowest)
    /\ parser' = result'.p
    /\ last' = [op |-> "parse_expression", arg |-> NoToken, ret |-> result'.ok,
                from |-> parser.l.pos]
    /\ pc' = "done"
    /\ UNCHANGED <<input, shape>>

Next == NextToken \/ ExpectPeek \/ ParseProgram \/ ParseExpression

Spec == Init /\ [][Next]_vars

StartCase(c) == Start(c.toks, [fam |-> c.fam, parts |-> c.parts])

InitForms ==
    \/ \E c \in ChainCases : StartCase(c)
    \/ \E c \in UnaryCases : StartCase(c)
    \/ \E c \in CallCases : StartCase(c)
    \/ \E c \in HashCases : StartCase(c)
    \/ \E c \in EmptyListCases : StartCase(c)
    \/ \E c \in FnCases : StartCase(c)
    \/ \E c \in IfCases : StartCase(c)

SpecForms == InitForms /\ [][Next]_vars

Ran(op) == pc = "done" /\ last.op = op

RanFromStart(op) == Ran(op) /\ last.from = 3

(***************************************************************************)
(* Expected trees, stated from the parts of a source form.                 *)
(***************************************************************************)
ExprOf(toks) == parse_expression(new(Lexer(toks)), Lowest).v

AtomExpr(t) ==
    CASE t.k = "Ident" -> <<"Identifier", <<"Ident", t.v>>>>
      [] t.k = "Int" -> <<"IntLiteral", t.v>>
      [] t.k = "Bool" -> <<"BoolLiteral", t.v>>
      [] t.k = "String" -> <<"StringLiteral", t.v>>

\* The reference grammar's levels: Equality < Relational < Additive < Multiplicative.
RefLevel(op) ==
    CASE op.k \in {"Eq", "NotEq"} -> 1
      [] op.k \in {"LT", "GT"} -> 2
      [] op.k \in {"Plus", "Minus"} -> 3
      [] op.k \in {"Slash", "Asterisk"} -> 4

\* The tree of a0 op1 a1 ... opn an: split at the rightmost operator of the
\* lowest level, so that higher levels bind tighter and equal levels nest left.
RECURSIVE RefTree(_)
RefTree(toks) ==
    IF Len(toks) = 1 THEN AtomExpr(toks[1])
    ELSE LET opsAt == {i \in 1..Len(toks) : i % 2 = 0}
             low == CHOOSE n \in 1..4 :
                        /\ \E i \in opsAt : RefLevel(toks[i]) = n
                        /\ \A i \in opsAt : RefLevel(toks[i]) >= n
             split == CHOOSE i \in opsAt :
                        /\ RefLevel(toks[i]) = low
                        /\ \A j \in opsAt : RefLevel(toks[j]) = low => j <= i
         IN  <<"InfixExpression", RefTree(SubSeq(toks, 1, split - 1)), toks[split],
               RefTree(SubSeq(toks, split + 1, Len(toks)))>>

RECURSIVE ExprAltEmpty(_)
RECURSIVE StmtsAltEmpty(_)
ExprAltEmpty(e) ==
    CASE e[1] = "PrefixExpression" -> ExprAltEmpty(e[3])
      [] e[1] = "InfixExpression" -> ExprAltEmpty(e[2]) /\ ExprAltEmpty(e[4])
      [] e[1] = "IfExpression" ->
           e[4] = <<>> /\ ExprAltEmpty(e[2]) /\ StmtsAltEmpty(e[3])
      [] e[1] = "FunctionExpression" -> StmtsAltEmpty(e[3])
      [] e[1] = "CallExpression" ->
           ExprAltEmpty(e[2]) /\ \A i \in 1..Len(e[3]) : ExprAltEmpty(e[3][i])
      [] e[1] = "ArrayLiteral" -> \A i \in 1..Len(e[2]) : ExprAltEmpty(e[2][i])
      [] e[1] = "IndexExpression" -> ExprAltEmpty(e[2]) /\ ExprAltEmpty(e[3])
      [] e[1] = "HashLiteral" ->
           \A i \in 1..Len(e[2]) :
               ExprAltEmpty(e[2][i][1]) /\ ExprAltEmpty(e[2][i][2])
      [] OTHER -> TRUE

StmtsAltEmpty(sts) ==
    \A i \in 1..Len(sts) :
        IF sts[i][1] = "LetStatement" THEN ExprAltEmpty(sts[i][3])
        ELSE ExprAltEmpty(sts[i][2])

HasElse == shape.fam = "ifelse" /\ shape.parts[3] # <<>> /\ shape.parts[3][1] = Tok("Else")

IfTree == <<"IfExpression", ExprOf(shape.parts[1]),
            <<<<"ExpressionStatement", ExprOf(shape.parts[2])>>>>, <<>>>>

(***************************************************************************)
(* The claims.                                                             *)
(***************************************************************************)

\* C1: a chain of atoms joined by the binary operators parses, at Lowest, to
\* the tree of the reference grammar: higher levels bind tighter, equal levels
\* nest to the left.
C1_PrecedenceClimbing ==
    (shape.fam = "chain" /\ RanFromStart("parse_expression")) =>
        (result.ok /\ result.v = RefTree(shape.parts[1]))

C1_Witness ==
    /\ shape.fam = "chain" /\ RanFromStart("parse_expression")
    /\ Len(input) = 7
    /\ input[2].k = "Minus" /\ input[4].k = "Asterisk" /\ input[6].k = "Minus"
    /\ result.ok /\ result.v[2][4][1] = "InfixExpression"

\* C2: an empty expression list parses: `[` `]` is ArrayLiteral with zero
\* elements and `f` `(` `)` is CallExpression(f, no arguments), whatever follows.
C2_EmptyListParses ==
    (shape.fam = "emptylist" /\ RanFromStart("parse_expression")) =>
        /\ result.ok
        /\ result.v = IF shape.parts[1][1].k = "LBracket"
                      THEN <<"ArrayLiteral", <<>>>>
                      ELSE <<"CallExpression", AtomExpr(shape.parts[1][1]), <<>>>>

\* C3: callee(a1, ..., ak)[i] parses as IndexExpression(CallExpression(callee,
\* [a1..ak] in source order), i) and leaves the cursor on the closing `]`.
C3_CallThenIndex ==
    (shape.fam = "call" /\ RanFromStart("parse_expression")) =>
        /\ result.ok
        /\ result.v =
             <<"IndexExpression",
               <<"CallExpression", ExprOf(shape.parts[1]),
                 [i \in 1..(Len(shape.parts) - 2) |-> ExprOf(shape.parts[i + 2])]>>,
               ExprOf(shape.parts[2])>>
        /\ parser.cur_token = Tok("RBracket")
        /\ parser.l.pos - 2 =
             Len(CallToks(shape.parts[1], SubSeq(shape.parts, 3, Len(shape.parts)),
                          shape.parts[2]))

C3_Witness ==
    /\ shape.fam = "call" /\ RanFromStart("parse_expression")
    /\ Len(shape.parts) = 4
    /\ shape.parts[3] # shape.parts[4]
    /\ result.ok /\ result.v[1] = "IndexExpression"
    /\ Len(result.v[2][3]) = 2
    /\ parser.cur_token = Tok("RBracket")

\* C4: a hash literal of n >= 0 comma-separated pairs parses as HashLiteral
\* with exactly those pairs in source order.
C4_HashPairs ==
    (shape.fam = "hash" /\ RanFromStart("parse_expression")) =>
        /\ result.ok
        /\ result.v =
             <<"HashLiteral",
               [i \in 1..Len(shape.parts) |->
                   <<ExprOf(shape.parts[i][1]), ExprOf(shape.parts[i][2])>>]>>

\* C5: a prefix operator binds tighter than every binary operator: -a op b is
\* Infix(Prefix(-, a), op, b), !a op b is Infix(Prefix(!, a), op, b), and !-a
\* is Prefix(!, Prefix(-, a)).
C5_PrefixBindsTighter ==
    (shape.fam = "unary" /\ RanFromStart("parse_expression")) =>
        LET pre == shape.parts[1]
            a == AtomExpr(shape.parts[2][1])
        IN  /\ (Len(pre) = 1 /\ shape.parts[3] # <<>>) =>
                 /\ result.ok
                 /\ result.v = <<"InfixExpression",
                                 <<"PrefixExpression", pre[1], a>>,
                                 shape.parts[3][1], AtomExpr(shape.parts[4][1])>>
            /\ pre = <<Tok("Bang"), Tok("Minus")>> =>
                 /\ result.ok
                 /\ result.v = <<"PrefixExpression", Tok("Bang"),
                                 <<"PrefixExpression", Tok("Minus"), a>>>>

C5_Witness ==
    /\ shape.fam = "unary" /\ RanFromStart("parse_expression")
    /\ shape.parts[1] = <<Tok("Minus")>>
    /\ shape.parts[3] = <<Tok("Asterisk")>>
    /\ result.ok /\ result.v[2][1] = "PrefixExpression"

\* C6: parse_program terminates within its step budget on every token stream,
\* and a stream that ends inside a block, hash literal, array literal, argument
\* list or parameter list yields a ParseError, not a truncated tree.
C6_Terminates ==
    Ran("parse_program") =>
        /\ ~result.p.diverged
        /\ (shape.fam = "prefix" /\ last.from = 3 /\ Depth(input) > 0) => ~result.ok

C6_Witness ==
    /\ Ran("parse_program") /\ shape.fam = "prefix" /\ last.from = 3
    /\ Depth(input) > 1 /\ Len(input) > 8
    /\ ~result.ok /\ ~result.p.diverged

\* C7: expect_peek consumes a token only on success: when peek equals the
\* expected token the cursor advances by exactly one token and the call returns
\* true; otherwise it returns false and the parser is unchanged.
C7_ExpectPeekFrame ==
    [][(pc = "primed" /\ pc' = "done" /\ last'.op = "expect_peek") =>
          IF parser.peek_token = last'.arg
          THEN /\ last'.ret
               /\ parser'.cur_token = parser.peek_token
               /\ parser'.peek_token = TokAt(input, parser.l.pos)
               /\ parser'.l.pos = parser.l.pos + 1
          ELSE /\ ~last'.ret
               /\ parser' = parser]_vars

C7_Witness ==
    /\ Ran("expect_peek") /\ last.ret
    /\ parser.cur_token = last.arg
    /\ parser.l.pos = last.from + 1

\* C8: a function literal with a non-identifier in a parameter position fails
\* to parse, and a successful parse has exactly the parameter positions'
\* identifiers, in source order.
C8_ParamsAreIdentifiers ==
    (shape.fam = "fnparams" /\ RanFromStart("parse_expression")) =>
        LET params == shape.parts[1]
        IN  /\ (\E i \in 1..Len(params) : params[i].k # "Ident") => ~result.ok
            /\ result.ok =>
                 result.v[2] = [i \in 1..Len(params) |-> <<"Ident", params[i].v>>]

C10_CursorWindow ==
    /\ Consecutive(parser)
    /\ parser.adjacent
    /\ ~parser.eofAdv

C10_Witness ==
    /\ Ran("parse_program") /\ result.ok
    /\ Len(input) > 8
    /\ is_eof(parser.cur_token)
    /\ parser.l.pos = Len(input) + 3

====
